---- MODULE Spec2Model ----
(***************************************************************************)
(* Document retrieval of the abductive-event-reasoning pipeline:           *)
(* DocumentRetriever (BM25) and SemanticRetriever of src/src/retriever.py. *)
(* A retriever is constructed once with its configuration and then serves  *)
(* retrieve(event, title_snippet, documents) calls.                        *)
(*                                                                         *)
(* Texts are sequences of one-character strings.  Corpus positions are     *)
(* 1-based here and 0-based in the source.  The relevance scores come from *)
(* libraries outside the repository (rank_bm25, sentence-transformers):    *)
(* they are any function of the indexed key of a text, so two positions    *)
(* with the same key always score the same within one call.                *)
(***************************************************************************)
EXTENDS Integers, Sequences, FiniteSets, TLC

VARIABLES
    pc,                \* position of the retriever / of the current call
    kind,              \* "bm25" (DocumentRetriever) or "semantic" (SemanticRetriever)
    top_k,             \* self.top_k
    use_full_content,  \* self.use_full_content
    event,             \* argument event
    title_snippet,     \* argument title_snippet
    documents,         \* argument documents
    scores,            \* local scores / similarities, one per indexed text
    top_indices,       \* local top_indices
    scored,            \* TRUE once the call has entered the scoring code
    failed,            \* TRUE once the call has entered its except handler
    result,            \* the returned list
    frames,            \* worker thread -> frame of its retrieve call on the
                       \* shared retriever (thread pool of run.py)
    solver,            \* main of run.py and the solve call of an approach
    reranker,          \* the reranking stage
    evaluator,         \* a call of Evaluator._calculate_instance_score
    tokenizer,         \* the lexical tokenization of two texts
    loader,            \* DataLoader: the files read and a load() in progress
    postproc,          \* a call of post_process_answers
    llm,               \* a ChatLLM and its generate call
    voter,             \* the samples and the vote of the consistency approach
    answer             \* the text returned by solve and what parse_answer reads

retrieverVars == <<pc, kind, top_k, use_full_content, event, title_snippet,
                   documents, scores, top_indices, scored, failed, result,
                   frames>>

others == <<solver, reranker, evaluator, tokenizer, loader, postproc, llm,
           voter, answer>>

vars == <<retrieverVars, others>>

config == <<kind, top_k, use_full_content>>
args == <<event, title_snippet, documents>>
locals == <<scores, top_indices, scored, failed, result>>

-----------------------------------------------------------------------------
(* Bounds *)

MaxDocs == 3
MaxTopK == 2
MaxScore == 1
MaxCloseness == 2
MaxCandidates == 3
MaxTextLen == 3
MaxEntryDocs == 2
MaxTopics == 2
MaxQuestions == 2
MaxRetries == 3

TopKs == (0 - 1) .. MaxTopK
Scores == 0 .. MaxScore
Kinds == {"bm25", "semantic"}

DocTexts == { <<"a">>, <<"B", " ", "c">> }
SnippetTexts == { <<"s">>, <<"t", " ", "s">> }
Events == { <<"a">>, <<"S", " ", "b">> }
Workers == {"w1", "w2"}

SeqsUpTo(S, n) == UNION { [1 .. m -> S] : m \in 0 .. n }

-----------------------------------------------------------------------------
(* Python and numpy primitives used by retrieve *)

Min(a, b) == IF a <= b THEN a ELSE b
Max(a, b) == IF a >= b THEN a ELSE b

Range(s) == { s[i] : i \in DOMAIN s }

Reverse(s) == [i \in 1 .. Len(s) |-> s[Len(s) + 1 - i]]

\* s[:k] of Python: a negative k counts from the end
PySliceTo(s, k) ==
    SubSeq(s, 1, IF k < 0 THEN Max(Len(s) + k, 0) ELSE Min(k, Len(s)))

\* str.lower on one character
LowerChar(c) ==
    CASE c = "A" -> "a"
      [] c = "B" -> "b"
      [] c = "C" -> "c"
      [] c = "S" -> "s"
      [] c = "T" -> "t"
      [] c = "N" -> "n"
      [] c = "R" -> "r"
      [] OTHER -> c

\* the whitespace characters of the texts (space and tab)
Whitespace == {" ", "\t"}

Lower(text) == [i \in 1 .. Len(text) |-> LowerChar(text[i])]

\* str.strip: the text without its leading and trailing whitespace
Strip(text) ==
    LET kept == { i \in DOMAIN text : text[i] \notin Whitespace }
    IN  IF kept = {} THEN << >>
        ELSE SubSeq(text, CHOOSE i \in kept : \A j \in kept : i <= j,
                          CHOOSE i \in kept : \A j \in kept : j <= i)

\* keyword in text
Contains(text, keyword) ==
    \E i \in 1 .. Len(text) - Len(keyword) + 1 :
        SubSeq(text, i, i + Len(keyword) - 1) = keyword

\* str.split(" "): cuts at every single space, keeping empty tokens
RECURSIVE SplitFrom(_, _, _)
SplitFrom(text, i, cur) ==
    IF i > Len(text) THEN << cur >>
    ELSE IF text[i] = " " THEN << cur >> \o SplitFrom(text, i + 1, << >>)
    ELSE SplitFrom(text, i + 1, Append(cur, text[i]))

Split(text) == SplitFrom(text, 1, << >>)

Tokenize(text) == Split(Lower(text))

\* np.argsort(scores): an ascending order of the positions; the default sort
\* kind is not stable, so positions of equal score come in any order
RECURSIVE AscendingOrders(_, _)
AscendingOrders(sc, left) ==
    IF left = {} THEN { << >> }
    ELSE UNION { { << p >> \o rest : rest \in AscendingOrders(sc, left \ {p}) } :
                   p \in { q \in left : \A r \in left : sc[q] <= sc[r] } }

ArgsortOutcomes(sc) == AscendingOrders(sc, DOMAIN sc)

-----------------------------------------------------------------------------
(* The pieces of retrieve *)

\* variant: the size test written with < instead of <=
TakesShortcutStrict == Len(documents) < top_k

TakesShortcut == Len(documents) <= top_k

\* variant: the two branches of the text selection are exchanged
TextsToIndexSwapped(ts, docs) == IF use_full_content THEN ts ELSE docs

TextsToIndexOf(ts, docs) == IF use_full_content THEN docs ELSE ts

TextsToIndex == TextsToIndexOf(title_snippet, documents)

\* what the scorer sees of a text: its token list (BM25) or the text (encoder)
IndexKey(text) == IF kind = "bm25" THEN Tokenize(text) ELSE text

\* the score lists the scorer can produce for the texts of this call
ScoreVectorsOf(texts) ==
    LET keys == { IndexKey(texts[i]) : i \in DOMAIN texts }
    IN  { [i \in 1 .. Len(texts) |-> rel[IndexKey(texts[i])]] :
            rel \in [keys -> Scores] }

ScoreVectors == ScoreVectorsOf(TextsToIndex)

\* variant: one index too many is kept
TopIndicesOneMore(order) == PySliceTo(Reverse(order), top_k + 1)

\* variant: the [::-1] is missing, the lowest scores are kept
TopIndicesAscending(order) == PySliceTo(order, top_k)

\* np.argsort(scores)[::-1][:self.top_k]
TopIndices(order) == PySliceTo(Reverse(order), top_k)

\* the top_indices that scoring and argsort can produce for these texts
RankedIndices(texts) ==
    UNION { { TopIndices(order) : order \in ArgsortOutcomes(sc) } :
              sc \in ScoreVectorsOf(texts) }

\* documents[i] raises IndexError for a position past the end of documents
IndexInRangeOf(docs, idx) == \A j \in DOMAIN idx : idx[j] <= Len(docs)

IndexInRange(idx) == IndexInRangeOf(documents, idx)

\* variant: the best index is used for every element
RetrievedBestOnly(idx) == [j \in 1 .. Len(idx) |-> documents[idx[1]]]

\* variant: the indexed texts are returned instead of the documents
RetrievedIndexedText(idx) == [j \in 1 .. Len(idx) |-> TextsToIndex[idx[j]]]

\* [documents[i] for i in top_indices]
RetrievedFrom(docs, idx) == [j \in 1 .. Len(idx) |-> docs[idx[j]]]

Retrieved(idx) == RetrievedFrom(documents, idx)

\* documents[:self.top_k]
FallbackOf(docs) == PySliceTo(docs, top_k)

Fallback == FallbackOf(documents)

-----------------------------------------------------------------------------
(* Construction *)

\* a worker's frame holds the arguments that retrieve computes with; the
\* event only reaches the scorer, whose answer is any score list
IdleFrame ==
    [pc |-> "idle", title_snippet |-> << >>, documents |-> << >>,
     texts_to_index |-> << >>, result |-> << >>]

\* no call of run.py's main or of an approach's solve has started
SolverIdle ==
    [pc |-> "start", in_main |-> FALSE, top_k_arg |-> 0,
     no_retrieval |-> FALSE, ctor_top_k |-> 0, retriever |-> "unset", title_snippet |-> << >>, documents |-> << >>,
     prompt_docs |-> << >>]

RerankerIdle ==
    [pc |-> "idle", candidates |-> << >>, pair_scores |-> << >>,
     output |-> << >>, failed |-> FALSE]

EvaluatorIdle ==
    [pc |-> "idle", predicted |-> {}, ground_truth |-> {}, score |-> "none",
     prediction_type |-> "none"]

TokenizerIdle ==
    [pc |-> "idle", text_a |-> << >>, text_b |-> << >>, tokens_a |-> << >>,
     tokens_b |-> << >>]

LoaderIdle ==
    [pc |-> "idle", docs_data |-> << >>, docs_dict |-> << >>,
     title_snippet_dict |-> << >>, lines_read |-> 0,
     item |-> [topic_id |-> "none", title_snippet |-> << >>,
               documents |-> << >>]]

PostprocIdle ==
    [pc |-> "idle", answers |-> {}, options |-> << >>, processed |-> {}]

LlmIdle ==
    [pc |-> "idle", max_retries |-> 0, attempt |-> 0, log |-> << >>,
     returned |-> << >>]

VoterIdle ==
    [pc |-> "idle", samples |-> << >>,
     option_votes |-> [opt \in {"A", "B", "C", "D"} |-> 0],
     voted_answers |-> {}]

AnswerIdle ==
    [pc |-> "idle", approach |-> "none", options |-> << >>,
     num_responses |-> 0, best_response |-> << >>,
     pass1_response |-> << >>, pass2_response |-> << >>,
     option_votes |-> [opt \in {"A", "B", "C", "D"} |-> 0],
     final_answers |-> {}, output |-> << >>, parsed |-> {}]

RetrieverInit ==
    /\ pc = "unconstructed"
    /\ kind = "none"
    /\ top_k = 0
    /\ use_full_content = FALSE
    /\ event = << >>
    /\ title_snippet = << >>
    /\ documents = << >>
    /\ scores = << >>
    /\ top_indices = << >>
    /\ scored = FALSE
    /\ failed = FALSE
    /\ result = << >>
    /\ frames = [w \in Workers |-> IdleFrame]

Init ==
    /\ RetrieverInit
    /\ solver = SolverIdle
    /\ reranker = RerankerIdle
    /\ evaluator = EvaluatorIdle
    /\ tokenizer = TokenizerIdle
    /\ loader = LoaderIdle
    /\ postproc = PostprocIdle
    /\ llm = LlmIdle
    /\ voter = VoterIdle
    /\ answer = AnswerIdle

\* __init__ stores its arguments as they are
Construct ==
    /\ pc = "unconstructed"
    /\ \E kd \in Kinds, k \in TopKs, ufc \in BOOLEAN :
          /\ kind' = kd
          /\ top_k' = k
          /\ use_full_content' = ufc
    /\ pc' = "idle"
    /\ UNCHANGED <<args, locals, frames, others>>

\* SemanticRetriever.__init__ raises when the library or the model is missing
ConstructFails ==
    /\ pc = "unconstructed"
    /\ kind' = "semantic"
    /\ pc' = "ctor_raised"
    /\ UNCHANGED <<top_k, use_full_content, args, locals, frames, others>>

-----------------------------------------------------------------------------
(* retrieve *)

Call ==
    /\ pc = "idle"
    /\ \E e \in Events, ts \in SeqsUpTo(SnippetTexts, MaxDocs),
          docs \in SeqsUpTo(DocTexts, MaxDocs) :
          /\ event' = e
          /\ title_snippet' = ts
          /\ documents' = docs
    /\ pc' = "called"
    /\ UNCHANGED <<config, locals, frames, others>>

ReturnEmpty ==
    /\ pc = "called"
    /\ documents = << >>
    /\ result' = << >>
    /\ pc' = "done"
    /\ UNCHANGED <<config, args, scores, top_indices, scored, failed, frames, others>>

ReturnAll ==
    /\ pc = "called"
    /\ documents # << >>
    /\ TakesShortcut
    /\ result' = documents
    /\ pc' = "done"
    /\ UNCHANGED <<config, args, scores, top_indices, scored, failed, frames, others>>

\* tokenization, index construction and scoring succeed
Score ==
    /\ pc = "called"
    /\ documents # << >>
    /\ ~TakesShortcut
    /\ TextsToIndex # << >>
    /\ \E sc \in ScoreVectors : scores' = sc
    /\ scored' = TRUE
    /\ pc' = "scored"
    /\ UNCHANGED <<config, args, top_indices, failed, result, frames, others>>

\* tokenization, index construction or scoring raises; with no text to index
\* the scorer always does (division by the corpus size, shape mismatch)
ScoreRaises ==
    /\ pc = "called"
    /\ documents # << >>
    /\ ~TakesShortcut
    /\ scored' = TRUE
    /\ pc' = "except"
    /\ UNCHANGED <<config, args, scores, top_indices, failed, result, frames, others>>

Select ==
    /\ pc = "scored"
    /\ \E order \in ArgsortOutcomes(scores) :
          /\ top_indices' = TopIndices(order)
          /\ IF IndexInRange(TopIndices(order))
             THEN /\ result' = Retrieved(TopIndices(order))
                  /\ pc' = "done"
             ELSE /\ result' = result
                  /\ pc' = "except"
    /\ UNCHANGED <<config, args, scores, scored, failed, frames, others>>

\* variant: the handler lets the exception leave retrieve
ExceptPropagates ==
    /\ pc = "except"
    /\ failed' = TRUE
    /\ pc' = "raised"
    /\ UNCHANGED <<config, args, scores, top_indices, scored, result, frames, others>>

\* variant: the handler truncates the caller's list in place
ExceptTruncatesInPlace ==
    /\ pc = "except"
    /\ failed' = TRUE
    /\ documents' = Fallback
    /\ result' = Fallback
    /\ pc' = "done"
    /\ UNCHANGED <<config, event, title_snippet, scores, top_indices, scored, frames, others>>

ExceptFallback ==
    /\ pc = "except"
    /\ failed' = TRUE
    /\ result' = Fallback
    /\ pc' = "done"
    /\ UNCHANGED <<config, args, scores, top_indices, scored, frames, others>>

\* the caller takes the returned list; the call's frame is gone
Release ==
    /\ pc = "done"
    /\ pc' = "idle"
    /\ event' = << >>
    /\ title_snippet' = << >>
    /\ documents' = << >>
    /\ scores' = << >>
    /\ top_indices' = << >>
    /\ scored' = FALSE
    /\ failed' = FALSE
    /\ result' = << >>
    /\ UNCHANGED <<config, frames, others>>

Next ==
    \/ Construct
    \/ ConstructFails
    \/ Call
    \/ ReturnEmpty
    \/ ReturnAll
    \/ Score
    \/ ScoreRaises
    \/ Select
    \/ ExceptFallback
    \/ Release

Spec == Init /\ [][Next]_vars

-----------------------------------------------------------------------------
(* The five-document scenario: a retriever with top_k = 2 serves an event   *)
(* that is lexically closest to D3 and semantically closest to D5.  The     *)
(* BM25 scorer of DocumentRetriever sees the lexical closeness, the encoder *)
(* of SemanticRetriever the semantic one; each retriever has one scorer.    *)

D1 == <<"d", "1">>
D2 == <<"d", "2">>
D3 == <<"d", "3">>
D4 == <<"d", "4">>
D5 == <<"d", "5">>

Corpus5 == <<D1, D2, D3, D4, D5>>

Snippets5 == << <<"s", "1">>, <<"s", "2">>, <<"s", "3">>, <<"s", "4">>,
                <<"s", "5">> >>

\* the score lists in which the position of doc scores strictly highest
ClosestTo(doc) ==
    { sc \in [DOMAIN Corpus5 -> 0 .. MaxCloseness] :
        \A i, j \in DOMAIN Corpus5 :
            (Corpus5[i] = doc /\ i # j) => sc[j] < sc[i] }

\* what the one scorer of this retriever returns for the scenario's event
ScenarioScores == IF kind = "bm25" THEN ClosestTo(D3) ELSE ClosestTo(D5)

ScenarioConstruct ==
    /\ pc = "unconstructed"
    /\ \E kd \in Kinds, ufc \in BOOLEAN :
          /\ kind' = kd
          /\ use_full_content' = ufc
    /\ top_k' = 2
    /\ pc' = "idle"
    /\ UNCHANGED <<args, locals, frames, others>>

ScenarioCall ==
    /\ pc = "idle"
    /\ \E e \in Events : event' = e
    /\ title_snippet' = Snippets5
    /\ documents' = Corpus5
    /\ pc' = "called"
    /\ UNCHANGED <<config, locals, frames, others>>

ScenarioScore ==
    /\ pc = "called"
    /\ documents # << >>
    /\ ~TakesShortcut
    /\ \E sc \in ScenarioScores : scores' = sc
    /\ scored' = TRUE
    /\ pc' = "scored"
    /\ UNCHANGED <<config, args, top_indices, failed, result, frames, others>>

ScenarioNext ==
    \/ ScenarioConstruct
    \/ ScenarioCall
    \/ ScenarioScore
    \/ ScoreRaises
    \/ Select
    \/ ExceptFallback

SpecScenario == Init /\ [][ScenarioNext]_vars

-----------------------------------------------------------------------------
(* Worker threads of run.py calling retrieve on one shared retriever.  Each  *)
(* call has its own arguments and locals; self.top_k and                    *)
(* self.use_full_content are the only shared data it reads.                 *)

\* the loader builds title_snippet position by position from the same
\* documents as the contents
SnippetOf(doc) == IF doc = <<"a">> THEN <<"s">> ELSE <<"t", " ", "s">>

SnippetsOf(docs) == [i \in 1 .. Len(docs) |-> SnippetOf(docs[i])]

\* variant: the texts to index are kept in a buffer shared by all calls,
\* which holds what the first worker put there
FrameTextsShared(w) ==
    TextsToIndexOf(frames["w1"].title_snippet, frames["w1"].documents)

\* texts_to_index of worker w's call
FrameTexts(w) == TextsToIndexOf(frames[w].title_snippet, frames[w].documents)

\* the lists a call returns when it runs alone on these arguments
SoloOutcomes(ts, docs) ==
    IF docs = << >> THEN { << >> }
    ELSE IF Len(docs) <= top_k THEN { docs }
    ELSE { FallbackOf(docs) } \cup
         { IF IndexInRangeOf(docs, idx) THEN RetrievedFrom(docs, idx)
           ELSE FallbackOf(docs) :
             idx \in RankedIndices(TextsToIndexOf(ts, docs)) }

\* one DocumentRetriever is constructed for all workers; run.py passes a
\* positive top_k (a non-positive --top_k is replaced by 10)
ConcConstruct ==
    /\ pc = "unconstructed"
    /\ kind' = "bm25"
    /\ \E k \in 1 .. MaxTopK, ufc \in BOOLEAN :
          /\ top_k' = k
          /\ use_full_content' = ufc
    /\ pc' = "serving"
    /\ UNCHANGED <<args, locals, frames, others>>

\* a worker starts solve on an item of the loader and reaches retrieve
Submit(w) ==
    /\ pc = "serving"
    /\ frames[w].pc = "idle"
    /\ \E docs \in SeqsUpTo(DocTexts, MaxDocs) :
          frames' = [frames EXCEPT ![w] =
                        [pc |-> "called",
                         title_snippet |-> SnippetsOf(docs),
                         documents |-> docs,
                         texts_to_index |-> << >>, result |-> << >>]]
    /\ UNCHANGED <<pc, config, args, locals, others>>

WReturnEmpty(w) ==
    /\ frames[w].pc = "called"
    /\ frames[w].documents = << >>
    /\ frames' = [frames EXCEPT ![w].result = << >>, ![w].pc = "done"]
    /\ UNCHANGED <<pc, config, args, locals, others>>

WReturnAll(w) ==
    /\ frames[w].pc = "called"
    /\ frames[w].documents # << >>
    /\ Len(frames[w].documents) <= top_k
    /\ frames' = [frames EXCEPT ![w].result = frames[w].documents,
                                ![w].pc = "done"]
    /\ UNCHANGED <<pc, config, args, locals, others>>

WIndex(w) ==
    /\ frames[w].pc = "called"
    /\ frames[w].documents # << >>
    /\ Len(frames[w].documents) > top_k
    /\ frames' = [frames EXCEPT ![w].texts_to_index = FrameTexts(w),
                                ![w].pc = "indexed"]
    /\ UNCHANGED <<pc, config, args, locals, others>>

\* scoring, argsort and mapping back to documents, on the call's own locals
WRank(w) ==
    /\ frames[w].pc = "indexed"
    /\ frames[w].texts_to_index # << >>
    /\ \E idx \in RankedIndices(frames[w].texts_to_index) :
          IF IndexInRangeOf(frames[w].documents, idx)
          THEN frames' = [frames EXCEPT
                  ![w].result = RetrievedFrom(frames[w].documents, idx),
                  ![w].pc = "done"]
          ELSE frames' = [frames EXCEPT ![w].pc = "except"]
    /\ UNCHANGED <<pc, config, args, locals, others>>

WRaise(w) ==
    /\ frames[w].pc = "indexed"
    /\ frames' = [frames EXCEPT ![w].pc = "except"]
    /\ UNCHANGED <<pc, config, args, locals, others>>

WExcept(w) ==
    /\ frames[w].pc = "except"
    /\ frames' = [frames EXCEPT ![w].result = FallbackOf(frames[w].documents),
                                ![w].pc = "done"]
    /\ UNCHANGED <<pc, config, args, locals, others>>

\* the future completes and the frame is gone
WRelease(w) ==
    /\ frames[w].pc = "done"
    /\ frames' = [frames EXCEPT ![w] = IdleFrame]
    /\ UNCHANGED <<pc, config, args, locals, others>>

ConcNext ==
    \/ ConcConstruct
    \/ \E w \in Workers : Submit(w)
    \/ \E w \in Workers : WReturnEmpty(w)
    \/ \E w \in Workers : WReturnAll(w)
    \/ \E w \in Workers : WIndex(w)
    \/ \E w \in Workers : WRank(w)
    \/ \E w \in Workers : WRaise(w)
    \/ \E w \in Workers : WExcept(w)
    \/ \E w \in Workers : WRelease(w)

SpecConc == Init /\ [][ConcNext]_vars

-----------------------------------------------------------------------------
(* main of run.py and the solve call of an approach (approaches.py).  main   *)
(* builds the retriever from the command line; an approach can also be      *)
(* given a retriever that its caller has constructed.                       *)

besideSolver ==
    <<reranker, evaluator, tokenizer, loader, postproc, llm, voter, answer>>

\* the value main passes for top_k when --top_k is not positive
DefaultTopK == 10

\* values of --top_k
CliTopKs == 0 .. MaxTopK

\* keyword arguments of the DocumentRetriever(...) call in main
CtorKeywords == {"top_k", "use_full_content", "use_gpu"}

\* parameters of DocumentRetriever.__init__
InitParams == {"top_k", "use_full_content"}

\* positional arguments of the retrieve call of every approach
SolveArgs ==
    <<"item.event", "item.title_snippet", "item.documents", "item.options">>

\* parameters of retrieve
RetrieveParams == <<"event", "title_snippet", "documents">>

\* Python binds a call's arguments before the body runs and raises TypeError
\* for a keyword that names no parameter or a positional argument too many
KeywordsBind(keywords, params) == keywords \subseteq params

PositionalsBind(arguments, params) == Len(arguments) <= Len(params)

\* top_k=args.top_k if args.top_k > 0 else 10
CtorTopK(k) == IF k > 0 THEN k ELSE DefaultTopK

MainParseArgs ==
    /\ solver.pc = "start"
    /\ pc = "unconstructed"
    /\ \E k \in CliTopKs, nr \in BOOLEAN :
          solver' = [solver EXCEPT !.pc = "parsed", !.in_main = TRUE,
                                   !.top_k_arg = k, !.no_retrieval = nr]
    /\ UNCHANGED <<retrieverVars, besideSolver>>

\* retriever = None if args.no_retrieval
MainNoRetriever ==
    /\ solver.pc = "parsed"
    /\ solver.no_retrieval
    /\ solver' = [solver EXCEPT !.pc = "ready", !.retriever = "none"]
    /\ UNCHANGED <<retrieverVars, besideSolver>>

\* else DocumentRetriever(top_k=..., use_full_content=..., use_gpu=...)
MainConstruct ==
    /\ solver.pc = "parsed"
    /\ ~solver.no_retrieval
    /\ IF KeywordsBind(CtorKeywords, InitParams)
       THEN /\ kind' = "bm25"
            /\ top_k' = CtorTopK(solver.top_k_arg)
            /\ \E ufc \in BOOLEAN : use_full_content' = ufc
            /\ pc' = "idle"
            /\ solver' = [solver EXCEPT !.pc = "ready", !.retriever = "object",
                                        !.ctor_top_k = CtorTopK(solver.top_k_arg)]
       ELSE /\ solver' = [solver EXCEPT !.pc = "crashed",
                                        !.ctor_top_k = CtorTopK(solver.top_k_arg)]
            /\ UNCHANGED <<pc, config>>
    /\ UNCHANGED <<args, locals, frames, besideSolver>>

\* BaseApproach.__init__ with a retriever constructed by the caller
ApproachInit ==
    /\ solver.pc = "start"
    /\ pc = "idle"
    /\ solver' = [solver EXCEPT !.pc = "ready", !.retriever = "object"]
    /\ UNCHANGED <<retrieverVars, besideSolver>>

\* solve(item) is called with an item of the loader
SolveBegin ==
    /\ solver.pc = "ready"
    /\ \E docs \in SeqsUpTo(DocTexts, MaxDocs) :
          solver' = [solver EXCEPT !.pc = "solving", !.documents = docs,
                                   !.title_snippet = SnippetsOf(docs)]
    /\ UNCHANGED <<retrieverVars, besideSolver>>

\* documents = self.retriever.retrieve(item.event, item.title_snippet,
\*                                     item.documents, item.options)
SolveRetrieve ==
    /\ solver.pc = "solving"
    /\ solver.retriever = "object"
    /\ IF PositionalsBind(SolveArgs, RetrieveParams)
       THEN \E out \in SoloOutcomes(solver.title_snippet, solver.documents) :
               solver' = [solver EXCEPT !.pc = "prompted", !.prompt_docs = out]
       ELSE solver' = [solver EXCEPT !.pc = "type_error"]
    /\ UNCHANGED <<retrieverVars, besideSolver>>

\* documents = item.documents when there is no retriever
SolveAllDocuments ==
    /\ solver.pc = "solving"
    /\ solver.retriever = "none"
    /\ solver' = [solver EXCEPT !.pc = "prompted",
                                !.prompt_docs = solver.documents]
    /\ UNCHANGED <<retrieverVars, besideSolver>>

SolverNext ==
    \/ Construct
    \/ ConstructFails
    \/ MainParseArgs
    \/ MainNoRetriever
    \/ MainConstruct
    \/ ApproachInit
    \/ SolveBegin
    \/ SolveRetrieve
    \/ SolveAllDocuments

SpecSolver == Init /\ [][SolverNext]_vars

-----------------------------------------------------------------------------
(* The reranking stage.  The retriever with a cross-encoder is not among    *)
(* the sources at hand; the stage is written from its contract: the         *)
(* candidates are scored pairwise against the query and sorted by           *)
(* descending score, ties in input order; when the model fails the          *)
(* candidates are returned as they came.                                    *)

besideReranker ==
    <<solver, evaluator, tokenizer, loader, postproc, llm, voter, answer>>

Candidates == SeqsUpTo({D1, D2, D3}, MaxCandidates)

\* the place of candidate i after a stable sort by descending score
PlaceOf(sc, i) ==
    1 + Cardinality({ j \in DOMAIN sc :
                        sc[j] > sc[i] \/ (sc[j] = sc[i] /\ j < i) })

\* variant: candidates that the cross-encoder scores 0 are dropped
RerankedPositive(cands, sc) ==
    [r \in 1 .. Cardinality({ i \in DOMAIN sc : sc[i] > 0 }) |->
        cands[CHOOSE i \in DOMAIN sc : PlaceOf(sc, i) = r]]

Reranked(cands, sc) ==
    [r \in 1 .. Len(cands) |-> cands[CHOOSE i \in DOMAIN sc : PlaceOf(sc, i) = r]]

RerankCall ==
    /\ reranker.pc = "idle"
    /\ \E cands \in Candidates :
          reranker' = [reranker EXCEPT !.pc = "called", !.candidates = cands]
    /\ UNCHANGED <<retrieverVars, besideReranker>>

\* the cross-encoder scores every (query, candidate) pair
RerankScore ==
    /\ reranker.pc = "called"
    /\ \E sc \in [DOMAIN reranker.candidates -> Scores] :
          reranker' = [reranker EXCEPT !.pc = "scored", !.pair_scores = sc]
    /\ UNCHANGED <<retrieverVars, besideReranker>>

RerankSort ==
    /\ reranker.pc = "scored"
    /\ reranker' = [reranker EXCEPT
                       !.pc = "done",
                       !.output = Reranked(reranker.candidates,
                                           reranker.pair_scores)]
    /\ UNCHANGED <<retrieverVars, besideReranker>>

\* the cross-encoder fails: the pre-rerank order is returned
RerankFails ==
    /\ reranker.pc = "called"
    /\ reranker' = [reranker EXCEPT !.pc = "done", !.failed = TRUE,
                                    !.output = reranker.candidates]
    /\ UNCHANGED <<retrieverVars, besideReranker>>

RerankNext ==
    \/ RerankCall
    \/ RerankScore
    \/ RerankSort
    \/ RerankFails

SpecRerank == Init /\ [][RerankNext]_vars

-----------------------------------------------------------------------------
(* Evaluator._calculate_instance_score (evaluator.py).  The float results   *)
(* 1.0, 0.5 and 0.0 are written as strings.                                 *)

besideEvaluator ==
    <<solver, reranker, tokenizer, loader, postproc, llm, voter, answer>>

Options == {"A", "B", "C", "D"}

\* variant: the test for an empty prediction is missing
InstanceScoreNoEmptyTest(predicted, ground_truth) ==
    IF predicted = ground_truth THEN "1.0"
    ELSE IF predicted \subseteq ground_truth THEN "0.5"
    ELSE "0.0"

\* predicted < ground_truth of Python sets is the proper subset test
InstanceScore(predicted, ground_truth) ==
    IF predicted = {} THEN "0.0"
    ELSE IF predicted = ground_truth THEN "1.0"
    ELSE IF predicted \subseteq ground_truth /\ predicted # ground_truth
         THEN "0.5"
    ELSE "0.0"

\* variant: the test for an empty prediction is missing
ClassifyErrorTypeNoEmptyTest(predicted, ground_truth, score) ==
    IF score = "1.0" THEN "full_match"
    ELSE IF score = "0.5" THEN "partial_match"
    ELSE IF predicted \cap ground_truth = {} THEN "wrong_only"
    ELSE IF ground_truth \ predicted = {} /\ predicted \ ground_truth # {}
         THEN "over_complete"
    ELSE "mixed_error"

\* _classify_error_type: false_positives is predicted - ground_truth,
\* false_negatives ground_truth - predicted, true_positives their
\* intersection
ClassifyErrorType(predicted, ground_truth, score) ==
    IF score = "1.0" THEN "full_match"
    ELSE IF score = "0.5" THEN "partial_match"
    ELSE IF predicted = {} THEN "empty_prediction"
    ELSE IF predicted \cap ground_truth = {} THEN "wrong_only"
    ELSE IF ground_truth \ predicted = {} /\ predicted \ ground_truth # {}
         THEN "over_complete"
    ELSE "mixed_error"

\* a call with any two sets of option labels
InitEvaluator ==
    /\ RetrieverInit
    /\ solver = SolverIdle
    /\ reranker = RerankerIdle
    /\ tokenizer = TokenizerIdle
    /\ loader = LoaderIdle
    /\ postproc = PostprocIdle
    /\ llm = LlmIdle
    /\ voter = VoterIdle
    /\ answer = AnswerIdle
    /\ \E P \in SUBSET Options, G \in SUBSET Options :
          evaluator = [pc |-> "called", predicted |-> P, ground_truth |-> G,
                       score |-> "none", prediction_type |-> "none"]

CalculateInstanceScore ==
    /\ evaluator.pc = "called"
    /\ evaluator' = [evaluator EXCEPT
                        !.pc = "returned",
                        !.score = InstanceScore(evaluator.predicted,
                                                evaluator.ground_truth)]
    /\ UNCHANGED <<retrieverVars, besideEvaluator>>

\* update() classifies the prediction with the score it has just computed
Classify ==
    /\ evaluator.pc = "returned"
    /\ evaluator' = [evaluator EXCEPT
                        !.pc = "classified",
                        !.prediction_type =
                            ClassifyErrorType(evaluator.predicted,
                                              evaluator.ground_truth,
                                              evaluator.score)]
    /\ UNCHANGED <<retrieverVars, besideEvaluator>>

EvaluatorNext ==
    \/ CalculateInstanceScore
    \/ Classify

SpecEvaluator == InitEvaluator /\ [][EvaluatorNext]_vars

-----------------------------------------------------------------------------
(* The lexical tokenization of retrieve, item.lower().split(" "), applied   *)
(* to two texts.  "\t" is the tab character; a newline is cut no more than  *)
(* a tab is.                                                                *)

besideTokenizer ==
    <<solver, reranker, evaluator, loader, postproc, llm, voter, answer>>

Chars == {"a", "A", " ", "\t"}

Texts == SeqsUpTo(Chars, MaxTextLen)

InitTokenizer ==
    /\ RetrieverInit
    /\ solver = SolverIdle
    /\ reranker = RerankerIdle
    /\ evaluator = EvaluatorIdle
    /\ loader = LoaderIdle
    /\ postproc = PostprocIdle
    /\ llm = LlmIdle
    /\ voter = VoterIdle
    /\ answer = AnswerIdle
    /\ \E a \in Texts, b \in Texts :
          tokenizer = [pc |-> "called", text_a |-> a, text_b |-> b,
                       tokens_a |-> << >>, tokens_b |-> << >>]

TokenizeBoth ==
    /\ tokenizer.pc = "called"
    /\ tokenizer' = [tokenizer EXCEPT !.pc = "done",
                                      !.tokens_a = Tokenize(tokenizer.text_a),
                                      !.tokens_b = Tokenize(tokenizer.text_b)]
    /\ UNCHANGED <<retrieverVars, besideTokenizer>>

TokenizerNext == TokenizeBoth

SpecTokenizer == InitTokenizer /\ [][TokenizerNext]_vars

-----------------------------------------------------------------------------
(* DataLoader (dataloader.py): docs.json is read at construction, load()    *)
(* builds the two dictionaries and then yields one AERItem per well-formed  *)
(* line of the questions file.  Of an item only topic_id, title_snippet and *)
(* documents are kept.                                                      *)

besideLoader ==
    <<solver, reranker, evaluator, tokenizer, postproc, llm, voter, answer>>

\* the documents of docs.json
DocRecords ==
    { [content |-> <<"a">>, title |-> <<"t">>, snippet |-> <<"s">>],
      [content |-> <<"B", " ", "c">>, title |-> <<"u">>, snippet |-> <<"v">>] }

\* the entries of docs.json; two entries may carry the same topic_id
DocsEntries ==
    [topic_id : {"t1", "t2"}, docs : SeqsUpTo(DocRecords, MaxEntryDocs)]

\* topic ids of the questions; "t9" has no entry in docs.json
QuestionTopics == {"t1", "t2", "t9"}

TopicsOf(data) == { data[i].topic_id : i \in DOMAIN data }

\* the entry whose assignment to the dictionary key t is the last one
LastEntry(data, t) ==
    data[CHOOSE i \in DOMAIN data :
            /\ data[i].topic_id = t
            /\ \A j \in DOMAIN data : data[j].topic_id = t => j <= i]

\* [doc["content"] for doc in item["docs"]]
Contents(docs) == [i \in DOMAIN docs |-> docs[i].content]

\* [doc["title"] + " " + doc["snippet"] for doc in item["docs"]]
TitleSnippets(docs) ==
    [i \in DOMAIN docs |-> docs[i].title \o <<" ">> \o docs[i].snippet]

DocsDict(data) ==
    [t \in TopicsOf(data) |-> Contents(LastEntry(data, t).docs)]

\* variant: a topic_id already in title_snippet_dict keeps its first list
TitleSnippetDictFirst(data) ==
    [t \in TopicsOf(data) |->
        TitleSnippets(data[CHOOSE i \in DOMAIN data :
                              /\ data[i].topic_id = t
                              /\ \A j \in DOMAIN data :
                                    data[j].topic_id = t => i <= j].docs)]

TitleSnippetDict(data) ==
    [t \in TopicsOf(data) |-> TitleSnippets(LastEntry(data, t).docs)]

\* dict.get(key, [])
DictGet(dict, key) == IF key \in DOMAIN dict THEN dict[key] ELSE << >>

\* DataLoader.__init__ has read docs.json ([] when the file is missing or
\* is not JSON)
InitLoader ==
    /\ RetrieverInit
    /\ solver = SolverIdle
    /\ reranker = RerankerIdle
    /\ evaluator = EvaluatorIdle
    /\ tokenizer = TokenizerIdle
    /\ postproc = PostprocIdle
    /\ llm = LlmIdle
    /\ voter = VoterIdle
    /\ answer = AnswerIdle
    /\ \E data \in SeqsUpTo(DocsEntries, MaxTopics) :
          loader = [LoaderIdle EXCEPT !.pc = "constructed", !.docs_data = data]

\* load(): the loop over self.docs_data
LoadBuildDicts ==
    /\ loader.pc = "constructed"
    /\ loader' = [loader EXCEPT
                     !.pc = "reading",
                     !.docs_dict = DocsDict(loader.docs_data),
                     !.title_snippet_dict = TitleSnippetDict(loader.docs_data)]
    /\ UNCHANGED <<retrieverVars, besideLoader>>

\* a line that is not JSON is skipped
LoadSkipLine ==
    /\ loader.pc \in {"reading", "yielded"}
    /\ loader.lines_read < MaxQuestions
    /\ loader' = [loader EXCEPT !.pc = "reading",
                                !.lines_read = loader.lines_read + 1,
                                !.item = LoaderIdle.item]
    /\ UNCHANGED <<retrieverVars, besideLoader>>

\* a well-formed line yields its AERItem
LoadYield ==
    /\ loader.pc \in {"reading", "yielded"}
    /\ loader.lines_read < MaxQuestions
    /\ \E topic \in QuestionTopics :
          loader' = [loader EXCEPT
                        !.pc = "yielded",
                        !.lines_read = loader.lines_read + 1,
                        !.item = [topic_id |-> topic,
                                  title_snippet |->
                                      DictGet(loader.title_snippet_dict, topic),
                                  documents |->
                                      DictGet(loader.docs_dict, topic)]]
    /\ UNCHANGED <<retrieverVars, besideLoader>>

LoaderNext ==
    \/ LoadBuildDicts
    \/ LoadSkipLine
    \/ LoadYield

SpecLoader == InitLoader /\ [][LoaderNext]_vars

-----------------------------------------------------------------------------
(* post_process_answers and its helpers (approaches.py), applied to a set   *)
(* of answer labels and the four option texts of a question.                *)

besidePostproc ==
    <<solver, reranker, evaluator, tokenizer, loader, llm, voter, answer>>

Labels == <<"A", "B", "C", "D">>

NoneKeywords ==
    { <<"n", "o", "n", "e", " ", "o", "f", " ", "t", "h", "e", " ", "o", "t", "h", "e", "r", "s">>,
      <<"n", "o", "n", "e", " ", "o", "f", " ", "t", "h", "e", " ", "a", "b", "o", "v", "e">>,
      <<"n", "o", "n", "e", " ", "a", "r", "e", " ", "c", "o", "r", "r", "e", "c", "t">> }

\* option texts: a cause, the same cause in other case and spacing, another
\* cause, and three ways to say that no other option is correct
OptionTexts ==
    { <<"r">>, <<" ", "R">>, <<"q">>,
      <<"N", "o", "n", "e", " ", "o", "f", " ", "t", "h", "e", " ", "a", "b", "o", "v", "e">>,
      <<"n", "o", "n", "e", " ", "o", "f", " ", "t", "h", "e", " ", "a", "b", "o", "v", "e", " ">>,
      <<"n", "o", "n", "e", " ", "a", "r", "e", " ", "c", "o", "r", "r", "e", "c", "t">> }

\* positions i < j of range(n) in the order of the two nested loops
RECURSIVE PairsFrom(_, _, _)
PairsFrom(i, j, n) ==
    IF i > n THEN << >>
    ELSE IF j > n THEN PairsFrom(i + 1, i + 2, n)
    ELSE << <<i, j>> >> \o PairsFrom(i, j + 1, n)

\* the (label, label) pairs of options equal after strip and lowercase
DetectDuplicateOptions(options) ==
    LET same(p) == Lower(Strip(options[p[1]])) = Lower(Strip(options[p[2]]))
        found == SelectSeq(PairsFrom(1, 2, Len(options)), same)
    IN  [k \in DOMAIN found |-> <<Labels[found[k][1]], Labels[found[k][2]]>>]

\* the value None of find_none_correct_option
NoLabel == "None"

IsNoneOption(text) == \E keyword \in NoneKeywords : Contains(Lower(text), keyword)

\* the label of the first option that holds a keyword
FindNoneCorrectOption(options) ==
    LET hits == { i \in DOMAIN options : IsNoneOption(options[i]) }
    IN  IF hits = {} THEN NoLabel
        ELSE Labels[CHOOSE i \in hits : \A j \in hits : i <= j]

\* Rule 1: the loop over the duplicate pairs
RECURSIVE AddDuplicates(_, _)
AddDuplicates(processed, duplicates) ==
    IF duplicates = << >> THEN processed
    ELSE LET label1 == Head(duplicates)[1]
             label2 == Head(duplicates)[2]
         IN  AddDuplicates(IF label1 \in processed \/ label2 \in processed
                           THEN processed \cup {label1, label2}
                           ELSE processed,
                           Tail(duplicates))

\* Rule 2: the "none" option is dropped when another answer is selected
DropNoneConflict(processed, none_label) ==
    IF /\ none_label # NoLabel
       /\ none_label \in processed
       /\ processed \ {none_label} # {}
    THEN processed \ {none_label}
    ELSE processed

PostProcessAnswers(answers, options) ==
    IF answers = {} THEN answers
    ELSE DropNoneConflict(AddDuplicates(answers, DetectDuplicateOptions(options)),
                          FindNoneCorrectOption(options))

InitPostproc ==
    /\ RetrieverInit
    /\ solver = SolverIdle
    /\ reranker = RerankerIdle
    /\ evaluator = EvaluatorIdle
    /\ tokenizer = TokenizerIdle
    /\ loader = LoaderIdle
    /\ llm = LlmIdle
    /\ voter = VoterIdle
    /\ answer = AnswerIdle
    /\ \E answers \in SUBSET Options, options \in [DOMAIN Labels -> OptionTexts] :
          postproc = [pc |-> "called", answers |-> answers,
                      options |-> options, processed |-> {}]

PostProcess ==
    /\ postproc.pc = "called"
    /\ postproc' = [postproc EXCEPT
                       !.pc = "returned",
                       !.processed = PostProcessAnswers(postproc.answers,
                                                        postproc.options)]
    /\ UNCHANGED <<retrieverVars, besidePostproc>>

PostprocNext == PostProcess

SpecPostproc == InitPostproc /\ [][PostprocNext]_vars

-----------------------------------------------------------------------------
(* ChatLLM.generate (llm.py): up to max_retries calls of the chat API.  A   *)
(* call returns a response or raises; the request timeout bounds its        *)
(* duration.  log holds the outcome of every call made so far.              *)

besideLlm ==
    <<solver, reranker, evaluator, tokenizer, loader, postproc, voter, answer>>

\* what one API call can give: a text (empty, blank or not), no content
\* (None), or an exception
ApiOutcomes ==
    { [kind |-> "text", text |-> << >>],
      [kind |-> "text", text |-> <<" ", "\t">>],
      [kind |-> "text", text |-> <<" ", "a">>],
      [kind |-> "text", text |-> <<"B">>],
      [kind |-> "null", text |-> << >>],
      [kind |-> "raised", text |-> << >>] }

\* variant: content.strip() is not tested
UsableUnstripped(outcome) == outcome.kind = "text" /\ outcome.text # << >>

\* if content and content.strip()
Usable(outcome) ==
    /\ outcome.kind = "text"
    /\ outcome.text # << >>
    /\ Strip(outcome.text) # << >>

\* generate is called on a ChatLLM built with max_retries
InitLlm ==
    /\ RetrieverInit
    /\ solver = SolverIdle
    /\ reranker = RerankerIdle
    /\ evaluator = EvaluatorIdle
    /\ tokenizer = TokenizerIdle
    /\ loader = LoaderIdle
    /\ postproc = PostprocIdle
    /\ voter = VoterIdle
    /\ answer = AnswerIdle
    /\ \E n \in 0 .. MaxRetries :
          llm = [LlmIdle EXCEPT !.pc = "loop", !.max_retries = n]

\* one pass of the loop body whose API call returns a response
AttemptReturns ==
    /\ llm.pc = "loop"
    /\ llm.attempt < llm.max_retries
    /\ \E outcome \in { o \in ApiOutcomes : o.kind # "raised" } :
          IF Usable(outcome)
          THEN llm' = [llm EXCEPT !.pc = "returned",
                                  !.log = Append(llm.log, outcome),
                                  !.returned = outcome.text]
          ELSE llm' = [llm EXCEPT !.attempt = llm.attempt + 1,
                                  !.log = Append(llm.log, outcome)]
    /\ UNCHANGED <<retrieverVars, besideLlm>>

\* one pass of the loop body whose API call raises: except Exception
AttemptRaises ==
    /\ llm.pc = "loop"
    /\ llm.attempt < llm.max_retries
    /\ llm' = [llm EXCEPT
                  !.attempt = llm.attempt + 1,
                  !.log = Append(llm.log, [kind |-> "raised", text |-> << >>])]
    /\ UNCHANGED <<retrieverVars, besideLlm>>

\* the loop is over: return ""
RetriesExhausted ==
    /\ llm.pc = "loop"
    /\ llm.attempt >= llm.max_retries
    /\ llm' = [llm EXCEPT !.pc = "returned", !.returned = << >>]
    /\ UNCHANGED <<retrieverVars, besideLlm>>

LlmNext ==
    \/ AttemptReturns
    \/ AttemptRaises
    \/ RetriesExhausted

\* every API call ends (timeout) and the loop goes on after it
SpecLlm == InitLlm /\ [][LlmNext]_vars /\ WF_vars(LlmNext)

-----------------------------------------------------------------------------
(* The sampling loop and the option-level vote of                           *)
(* LightweightConsistencyApproach.solve (approaches.py), for an approach    *)
(* without retriever.  A sample is the answer set parsed from one response. *)

besideVoter ==
    <<solver, reranker, evaluator, tokenizer, loader, postproc, llm, answer>>

\* self.num_samples
NumSamples == 3

\* self.vote_threshold
VoteThreshold == 2

\* max(option_votes.values())
MaxVotes(votes) ==
    CHOOSE m \in { votes[opt] : opt \in DOMAIN votes } :
        \A opt \in DOMAIN votes : votes[opt] <= m

\* variant: nothing is selected when no option passes the threshold
VotedAnswersNoFallback(votes) ==
    { opt \in DOMAIN votes : votes[opt] >= VoteThreshold }

VotedAnswers(votes) ==
    LET passed == { opt \in DOMAIN votes : votes[opt] >= VoteThreshold }
    IN  IF passed # {} THEN passed
        ELSE IF MaxVotes(votes) > 0
             THEN { opt \in DOMAIN votes : votes[opt] = MaxVotes(votes) }
        ELSE passed

\* solve has built its prompt: option_votes holds 0 for every label
SolveSampling ==
    /\ voter.pc = "idle"
    /\ voter' = [voter EXCEPT !.pc = "sampling"]
    /\ UNCHANGED <<retrieverVars, besideVoter>>

\* one pass of the sampling loop: a response is parsed and its options voted
Sample ==
    /\ voter.pc = "sampling"
    /\ Len(voter.samples) < NumSamples
    /\ \E answers \in SUBSET Options :
          voter' = [voter EXCEPT
                       !.samples = Append(voter.samples, answers),
                       !.option_votes =
                           [opt \in Options |->
                               IF opt \in answers
                               THEN voter.option_votes[opt] + 1
                               ELSE voter.option_votes[opt]]]
    /\ UNCHANGED <<retrieverVars, besideVoter>>

Vote ==
    /\ voter.pc = "sampling"
    /\ Len(voter.samples) >= NumSamples
    /\ voter' = [voter EXCEPT
                    !.pc = "voted",
                    !.voted_answers = VotedAnswers(voter.option_votes)]
    /\ UNCHANGED <<retrieverVars, besideVoter>>

VoterNext ==
    \/ SolveSampling
    \/ Sample
    \/ Vote

SpecVoter == Init /\ [][VoterNext]_vars

-----------------------------------------------------------------------------
(* The text returned by solve of the voting and two-pass approaches         *)
(* (approaches.py) and the answer set run.parse_answer reads from it        *)
(* (run.py), for approaches without retriever.                              *)
(*                                                                          *)
(* A text is a sequence of lines.  A line of kind "final" reads             *)
(* "Final Answer I Reasoned: " followed by a comma-separated list of        *)
(* letters, which is what the pattern of parse_answer matches; a line of    *)
(* kind "candidate" reads "Option X: CANDIDATE" for each of its letters; a  *)
(* line of kind "prose" is any other text, its letters being the ones that  *)
(* stand alone in it.  The empty sequence is the empty string.              *)

besideAnswer ==
    <<solver, reranker, evaluator, tokenizer, loader, postproc, llm, voter>>

FinalLine(letters) == [kind |-> "final", letters |-> letters]

CandidateLine(letters) == [kind |-> "candidate", letters |-> letters]

Prose(letters) == [kind |-> "prose", letters |-> letters]

\* what llm.generate may return: nothing, reasoning without or with a final
\* line, a final line in lower case, a pass-1 style marking of candidates
Responses ==
    { << >>,
      <<Prose({})>>,
      <<Prose({"D"})>>,
      <<FinalLine({"B"})>>,
      <<FinalLine({"b", "c"})>>,
      <<Prose({"D"}), FinalLine({"C"})>>,
      <<FinalLine({"A", "C"})>>,
      <<CandidateLine({"B", "C"}), Prose({})>> }

\* the option lists of the questions: four different causes; a duplicated
\* cause next to a "none of the above" option
AnswerOptions ==
    { << <<"r">>, <<"q">>, <<"r", "q">>, <<"q", "r">> >>,
      << <<"r">>, <<" ", "R">>, <<"q">>,
         <<"N", "o", "n", "e", " ", "o", "f", " ", "t", "h", "e", " ", "a", "b", "o", "v", "e">> >> }

Approaches == {"lightweight", "refinement", "two_pass"}

\* str.upper on an answer letter
UpperLetter(c) ==
    CASE c = "a" -> "A"
      [] c = "b" -> "B"
      [] c = "c" -> "C"
      [] c = "d" -> "D"
      [] OTHER -> c

\* prediction[-200:] holds the last two lines of a text
WindowLines == 2

LastLines(text) ==
    { text[i] : i \in { j \in DOMAIN text : j > Len(text) - WindowLines } }

\* re.search with the pattern "Final Answer I Reasoned:\s*([A-D](?:\s*,\s*[A-D])*)"
\* and re.IGNORECASE: the position of the first line that matches, 0 if none
SearchFinalAnswer(text) ==
    LET matches == { i \in DOMAIN text : text[i].kind = "final" }
    IN  IF matches = {} THEN 0
        ELSE CHOOSE i \in matches : \A j \in matches : i <= j

\* re.findall(r"\b([A-D])\b", ...): the upper-case letters standing alone
FindLetters(lines) ==
    { m \in UNION { line.letters : line \in lines } : m \in Options }

\* BaseApproach._parse_answer_from_response
ParseAnswerFromResponse(response) ==
    IF response = << >> THEN {}
    ELSE IF SearchFinalAnswer(response) # 0
         THEN { a \in { UpperLetter(c) :
                          c \in response[SearchFinalAnswer(response)].letters } :
                   a \in Options }
    ELSE { UpperLetter(m) : m \in FindLetters(LastLines(response)) }

\* run.parse_answer
ParseAnswer(prediction) ==
    IF prediction = << >> THEN {}
    ELSE IF SearchFinalAnswer(prediction) # 0
         THEN LET answers == { UpperLetter(c) :
                                 c \in prediction[SearchFinalAnswer(prediction)].letters }
              IN  { a \in answers : a \in Options }
    ELSE { UpperLetter(m) : m \in FindLetters(LastLines(prediction)) }

\* self.num_samples and self.vote_threshold of LightweightConsistencyApproach
\* are NumSamples and VoteThreshold; those of
\* SelfConsistencyRefinementApproach:
RefinementNumSamples == 7

RefinementVoteThreshold == 4

DOptionThreshold == 5

NumSamplesOf(approach) ==
    IF approach = "refinement" THEN RefinementNumSamples ELSE NumSamples

MinVotes(votes, opts) ==
    CHOOSE m \in { votes[opt] : opt \in opts } : \A opt \in opts : m <= votes[opt]

\* the 4-option restriction of SelfConsistencyRefinementApproach
RestrictFour(voted, votes, options) ==
    IF Cardinality(voted) # 4 THEN voted
    ELSE IF /\ FindNoneCorrectOption(options) # NoLabel
            /\ FindNoneCorrectOption(options) \in voted
         THEN voted \ {FindNoneCorrectOption(options)}
    ELSE LET min_vote == MinVotes(votes, voted)
             max_vote == MaxVotes(votes)
             weak_opts == { opt \in voted : votes[opt] = min_vote }
         IN  IF min_vote <= 1 /\ max_vote >= 4 /\ Cardinality(weak_opts) = 1
             THEN voted \ weak_opts
             ELSE voted

\* voted_answers of SelfConsistencyRefinementApproach.solve
RefinementVotedAnswers(votes, options) ==
    LET passed == { opt \in DOMAIN votes :
                      votes[opt] >= (IF opt = "D" THEN DOptionThreshold
                                     ELSE RefinementVoteThreshold) }
        kept == RestrictFour(passed, votes, options)
    IN  IF kept # {} THEN kept
        ELSE IF MaxVotes(votes) > 0
             THEN { opt \in DOMAIN votes : votes[opt] = MaxVotes(votes) }
        ELSE kept

\* the candidates TwoPassApproach.solve reads from the pass-1 response
PassOneCandidates(pass1_response) ==
    LET marked == { UpperLetter(c) :
                      c \in UNION { pass1_response[i].letters :
                                      i \in { j \in DOMAIN pass1_response :
                                                pass1_response[j].kind = "candidate" } } }
                  \cap Options
    IN  IF marked # {} THEN marked ELSE Options

\* the last line of every output
ReasonedLine(final_answers) ==
    FinalLine(IF final_answers # {} THEN final_answers ELSE {"A"})

\* the f-string of the two voting approaches: the vote counts and the answer
\* sets, all_responses[0], the final line
VotingOutput(approach, voted_answers, final_answers, best_response) ==
    (IF approach = "refinement"
     THEN <<Prose(Options), Prose(voted_answers), Prose(final_answers)>>
     ELSE <<Prose(Options), Prose(final_answers)>>)
    \o best_response
    \o <<ReasonedLine(final_answers)>>

\* the f-string of TwoPassApproach.solve
TwoPassOutput(candidates, pass1, pass2, raw_answers, final_answers) ==
    <<Prose(candidates)>>
    \o pass1
    \o pass2
    \o <<Prose(raw_answers), Prose(final_answers), ReasonedLine(final_answers)>>

\* solve is called on a question; the prompts are built
AnswerSolve ==
    /\ answer.pc = "idle"
    /\ \E approach \in Approaches, options \in AnswerOptions :
          answer' = [answer EXCEPT
                        !.pc = IF approach = "two_pass" THEN "pass1"
                               ELSE "sampling",
                        !.approach = approach,
                        !.options = options]
    /\ UNCHANGED <<retrieverVars, besideAnswer>>

\* one pass of a sampling loop; of all_responses the length and element 0,
\* the only one read later, are kept
AnswerSample ==
    /\ answer.pc = "sampling"
    /\ answer.num_responses < NumSamplesOf(answer.approach)
    /\ \E response \in Responses :
          answer' = [answer EXCEPT
                        !.num_responses = answer.num_responses + 1,
                        !.best_response = IF answer.num_responses = 0
                                          THEN response
                                          ELSE answer.best_response,
                        !.option_votes =
                            [opt \in Options |->
                                IF opt \in ParseAnswerFromResponse(response)
                                THEN answer.option_votes[opt] + 1
                                ELSE answer.option_votes[opt]]]
    /\ UNCHANGED <<retrieverVars, besideAnswer>>

\* after the loop: the vote, the post-processing and the output
AnswerVote ==
    /\ answer.pc = "sampling"
    /\ answer.num_responses >= NumSamplesOf(answer.approach)
    /\ LET voted_answers ==
               IF answer.approach = "refinement"
               THEN RefinementVotedAnswers(answer.option_votes, answer.options)
               ELSE VotedAnswers(answer.option_votes)
           final_answers == PostProcessAnswers(voted_answers, answer.options)
       IN  answer' = [answer EXCEPT
                         !.pc = "solved",
                         !.final_answers = final_answers,
                         !.output = VotingOutput(answer.approach, voted_answers,
                                                 final_answers,
                                                 answer.best_response)]
    /\ UNCHANGED <<retrieverVars, besideAnswer>>

\* pass 1 of TwoPassApproach.solve
TwoPassSelect ==
    /\ answer.pc = "pass1"
    /\ \E response \in Responses :
          answer' = [answer EXCEPT !.pc = "pass2", !.pass1_response = response]
    /\ UNCHANGED <<retrieverVars, besideAnswer>>

\* pass 2 of TwoPassApproach.solve, the post-processing and the output
TwoPassVerify ==
    /\ answer.pc = "pass2"
    /\ \E response \in Responses :
          LET raw_answers == ParseAnswerFromResponse(response)
              final_answers == PostProcessAnswers(raw_answers, answer.options)
          IN  answer' = [answer EXCEPT
                            !.pc = "solved",
                            !.pass2_response = response,
                            !.final_answers = final_answers,
                            !.output = TwoPassOutput(
                                           PassOneCandidates(answer.pass1_response),
                                           answer.pass1_response, response,
                                           raw_answers, final_answers)]
    /\ UNCHANGED <<retrieverVars, besideAnswer>>

\* run.main reads the prediction
RunParseAnswer ==
    /\ answer.pc = "solved"
    /\ answer' = [answer EXCEPT
                     !.pc = "parsed",
                     !.parsed = ParseAnswer(answer.output)]
    /\ UNCHANGED <<retrieverVars, besideAnswer>>

AnswerNext ==
    \/ AnswerSolve
    \/ AnswerSample
    \/ AnswerVote
    \/ TwoPassSelect
    \/ TwoPassVerify
    \/ RunParseAnswer

SpecAnswer == Init /\ [][AnswerNext]_vars

-----------------------------------------------------------------------------
(* Properties of retrieve *)

Count(s, x) == Cardinality({ i \in DOMAIN s : s[i] = x })

Aligned == Len(title_snippet) = Len(documents)

InCall == pc \in {"called", "scored", "except"}

\* C1: a corpus of size <= top_k (the empty corpus included) is returned as it
\* is, in its original order, and no scoring is performed, by both retrievers.
C1_ShortcutReturnsCorpus ==
    (pc = "done" /\ Len(documents) <= top_k) =>
        (result = documents /\ ~scored /\ ~failed)

C1_Witness ==
    /\ pc = "done"
    /\ kind = "semantic"
    /\ Len(documents) = top_k
    /\ Len(documents) >= 2
    /\ documents[1] # documents[2]

\* C2: with top_k >= 1 and title_snippet as long as documents, the returned
\* list has exactly min(top_k, |corpus|) elements, on the scoring path and on
\* the failure fallback path.
C2_LengthIsMin ==
    (pc = "done" /\ top_k >= 1 /\ Aligned) =>
        Len(result) = Min(top_k, Len(documents))

C2_Witness ==
    /\ pc = "done"
    /\ scored /\ ~failed
    /\ Aligned
    /\ top_k >= 1
    /\ Len(documents) > top_k
    /\ Len(result) = top_k

\* C3 as stated (for a valid call: top_k >= 1, title_snippet as long as
\* documents): the returned list never holds the same text twice.
C3_NoDuplicateTexts ==
    (pc = "done" /\ top_k >= 1 /\ Aligned) =>
        \A i, j \in DOMAIN result : i # j => result[i] # result[j]

\* C3 amended: every corpus position is returned at most once, so a text is
\* returned at most as many times as it occurs in the corpus (and never twice
\* when the corpus holds no text twice).
C3_NoMoreThanInCorpus ==
    pc = "done" => \A x \in Range(result) : Count(result, x) <= Count(documents, x)

C3_Witness ==
    /\ pc = "done"
    /\ scored /\ ~failed
    /\ \E i, j \in DOMAIN result : i # j /\ result[i] = result[j]
    /\ \E x \in Range(documents) : x \notin Range(result)

\* C4: every element of the returned list is an element of documents; a
\* title_snippet string is never returned in place of a document.
C4_ResultFromDocuments ==
    pc = "done" => \A i \in DOMAIN result : result[i] \in Range(documents)

C4_Witness ==
    /\ pc = "done"
    /\ ~use_full_content
    /\ scored /\ ~failed
    /\ result # << >>
    /\ Range(title_snippet) \cap Range(documents) = {}

\* C5: a failure of tokenization, index construction or scoring never leaves
\* retrieve: for a corpus larger than top_k (top_k >= 1) the call returns the
\* first top_k documents in corpus order, which is not the empty list.
C5_FailureFallsBack ==
    /\ pc # "raised"
    /\ (pc = "done" /\ failed /\ top_k >= 1) =>
          /\ Len(documents) > top_k
          /\ result = SubSeq(documents, 1, top_k)
          /\ result # << >>

C5_Witness ==
    /\ pc = "done"
    /\ failed
    /\ top_k >= 1
    /\ Aligned
    /\ Len(documents) > top_k

\* C6 as stated (for a valid top_k and a corpus larger than it): a call whose
\* title_snippet and documents differ in length never returns a document
\* list.
C6_MisalignedNeverReturns ==
    (pc = "done" /\ top_k >= 1 /\ Len(documents) > top_k) => Aligned

\* C7 as stated (for a non-empty corpus with title_snippet as long as
\* documents): no retriever configured with top_k <= 0 returns a result from
\* retrieve.
C7_InvalidTopKNeverReturns ==
    (pc = "done" /\ documents # << >> /\ Aligned) => top_k >= 1

\* C8: when scoring succeeds the returned documents are in descending order
\* of the score of their position, and no position left out scores higher
\* than a returned one.
C8_DescendingTopK ==
    (pc = "done" /\ scored /\ ~failed) =>
        /\ Len(result) = Len(top_indices)
        /\ \A i \in DOMAIN result : result[i] = documents[top_indices[i]]
        /\ \A i, j \in DOMAIN top_indices :
              i < j => scores[top_indices[i]] >= scores[top_indices[j]]
        /\ \A p \in DOMAIN scores : \A i \in DOMAIN top_indices :
              p \notin Range(top_indices) => scores[p] <= scores[top_indices[i]]

C8_Witness ==
    /\ pc = "done"
    /\ scored /\ ~failed
    /\ Aligned
    /\ result # << >>
    /\ 1 \notin Range(top_indices)
    /\ \E p \in DOMAIN scores : scores[p] < scores[top_indices[1]]

\* C9: no step of a call changes event, title_snippet, documents or the
\* retriever's configuration.
C9_InputsNotMutated ==
    [][InCall =>
          /\ event' = event
          /\ title_snippet' = title_snippet
          /\ documents' = documents
          /\ top_k' = top_k
          /\ use_full_content' = use_full_content]_vars

C9_Witness ==
    /\ pc = "done"
    /\ failed
    /\ Len(documents) > Len(result)
    /\ result # << >>

\* C10: under every interleaving of the workers' calls on the shared
\* retriever, a call returns a list it can return when it runs alone on its
\* own arguments.
C10_CallsDoNotInterfere ==
    \A w \in Workers :
        frames[w].pc = "done" =>
            frames[w].result \in
                SoloOutcomes(frames[w].title_snippet, frames[w].documents)

C10_Witness ==
    /\ frames["w1"].pc = "indexed"
    /\ frames["w2"].pc = "done"
    /\ frames["w1"].documents # frames["w2"].documents
    /\ Len(frames["w2"].documents) > top_k
    /\ Len(frames["w1"].documents) < Len(frames["w2"].documents)
    /\ frames["w2"].result # FallbackOf(frames["w2"].documents)

\* C17 as stated (for a valid top_k, title_snippet as long as documents and
\* a corpus without repeated texts, so that positions show in the result):
\* among positions of equal score the smaller corpus position is ranked
\* first and is kept first, so that with all scores equal the result is the
\* first top_k documents in corpus order.
C17_TiesByCorpusOrder ==
    (/\ pc = "done" /\ scored /\ ~failed /\ top_k >= 1 /\ Aligned
     /\ \A i, j \in DOMAIN documents : i # j => documents[i] # documents[j]) =>
        /\ \A i, j \in DOMAIN top_indices :
              (i < j /\ scores[top_indices[i]] = scores[top_indices[j]])
                  => top_indices[i] < top_indices[j]
        /\ \A p \in DOMAIN scores : \A i \in DOMAIN top_indices :
              (p \notin Range(top_indices) /\ scores[p] = scores[top_indices[i]])
                  => top_indices[i] < p

\* the list the ranking is computed from, as C18 names it
C18_Texts == IF use_full_content THEN documents ELSE title_snippet

\* C18: when scoring succeeds there is one score per text of the selected
\* list (title_snippet in short mode, documents in full mode), equal keys of
\* that list score equally, the selected positions are the top_k best of
\* these scores (so in short mode they do not depend on documents, and in
\* full mode not on title_snippet), and the element returned for position i
\* is documents[i].
C18_PositionsAligned ==
    (pc = "done" /\ scored /\ ~failed) =>
        /\ DOMAIN scores = DOMAIN C18_Texts
        /\ \A i, j \in DOMAIN C18_Texts :
              IndexKey(C18_Texts[i]) = IndexKey(C18_Texts[j]) => scores[i] = scores[j]
        /\ \A i \in DOMAIN scores : scores[i] \in Scores
        /\ top_indices \in { TopIndices(order) : order \in ArgsortOutcomes(scores) }
        /\ Len(result) = Len(top_indices)
        /\ \A i \in DOMAIN result : result[i] = documents[top_indices[i]]

C18_Witness ==
    /\ pc = "done"
    /\ scored /\ ~failed
    /\ ~use_full_content
    /\ Aligned
    /\ top_k >= 1
    /\ \E i, j \in DOMAIN documents :
          /\ documents[i] = documents[j]
          /\ title_snippet[i] # title_snippet[j]
          /\ scores[i] # scores[j]
          /\ i \in Range(top_indices)
          /\ j \notin Range(top_indices)

\* C11 as stated: in the five-document scenario (top_k = 2, no reranking)
\* a ranking that succeeds returns both D3, the lexically closest document,
\* and D5, the semantically closest one.
C11_FusesBothSignals ==
    (pc = "done" /\ scored /\ ~failed /\ documents = Corpus5) =>
        (D3 \in Range(result) /\ D5 \in Range(result))

\* C12 as stated: in the five-document scenario a SemanticRetriever whose
\* scoring fails returns the lexical ranking cut to its size, which starts
\* with D3, the lexically closest document.
C12_SemanticFailureIsLexical ==
    (pc = "done" /\ kind = "semantic" /\ failed /\ documents = Corpus5) =>
        (result # << >> /\ result[1] = D3)

\* C13 as stated: the retrieve call of an approach that holds a retriever,
\* which passes the options as fourth argument, returns a document list (it
\* does not end in an error).
C13_SolveCallReturnsList ==
    solver.retriever = "object" => solver.pc # "type_error"

\* C15 as stated: a run of main with --top_k 0 and retrieval enabled goes on
\* to solve, and every prompt it builds holds the whole corpus of the item.
C15_TopKZeroUsesAll ==
    (solver.in_main /\ solver.top_k_arg = 0 /\ ~solver.no_retrieval) =>
        /\ solver.pc # "crashed"
        /\ solver.pc = "prompted" => solver.prompt_docs = solver.documents

\* C14: the reranking stage returns exactly its candidates, each as often as
\* it came in (so the set of documents is unchanged), and when the
\* cross-encoder fails it returns them in the order they came in.
C14_RerankKeepsCandidates ==
    reranker.pc = "done" =>
        /\ Len(reranker.output) = Len(reranker.candidates)
        /\ Range(reranker.output) = Range(reranker.candidates)
        /\ \A x \in Range(reranker.candidates) :
              Count(reranker.output, x) = Count(reranker.candidates, x)
        /\ reranker.failed => reranker.output = reranker.candidates

C14_Witness ==
    /\ reranker.pc = "done"
    /\ ~reranker.failed
    /\ reranker.output # reranker.candidates
    /\ \E i \in DOMAIN reranker.pair_scores : reranker.pair_scores[i] = 0

RECURSIVE WordsFrom(_, _, _)
WordsFrom(text, i, cur) ==
    LET word == IF cur = << >> THEN << >> ELSE << cur >>
    IN  IF i > Len(text) THEN word
        ELSE IF text[i] \in Whitespace
             THEN word \o WordsFrom(text, i + 1, << >>)
        ELSE WordsFrom(text, i + 1, Append(cur, text[i]))

Words(text) == WordsFrom(text, 1, << >>)

\* a text that neither starts nor ends with whitespace
Trimmed(text) ==
    text = << >> \/ (text[1] \notin Whitespace /\ text[Len(text)] \notin Whitespace)

\* C19 as stated: two texts that differ only in letter case or in the kind or
\* number of whitespace characters between their words (they have the same
\* case-folded words) get the same token sequence, hence the same scores.
C19_WhitespaceAndCaseFolded ==
    (/\ tokenizer.pc = "done"
     /\ Trimmed(tokenizer.text_a) /\ Trimmed(tokenizer.text_b)
     /\ Words(Lower(tokenizer.text_a)) = Words(Lower(tokenizer.text_b))) =>
        tokenizer.tokens_a = tokenizer.tokens_b

\* C20: the title_snippet and documents of every yielded item have the same
\* length and the same order: both lists come, position by position, from
\* the documents of one entry of docs.json with the item's topic_id; an item
\* whose topic_id has no entry carries two empty lists.
C20_ItemListsAligned ==
    loader.pc = "yielded" =>
        LET item == loader.item
            data == loader.docs_data
        IN  /\ Len(item.title_snippet) = Len(item.documents)
            /\ IF item.topic_id \in TopicsOf(data)
               THEN \E e \in DOMAIN data :
                       /\ data[e].topic_id = item.topic_id
                       /\ Len(data[e].docs) = Len(item.documents)
                       /\ \A i \in DOMAIN item.documents :
                             /\ item.documents[i] = data[e].docs[i].content
                             /\ item.title_snippet[i] =
                                   data[e].docs[i].title \o <<" ">>
                                       \o data[e].docs[i].snippet
               ELSE item.documents = << >> /\ item.title_snippet = << >>

C20_Witness ==
    /\ loader.pc = "yielded"
    /\ Len(loader.item.documents) = 2
    /\ loader.item.documents[1] # loader.item.documents[2]
    /\ Len(loader.docs_data) = 2
    /\ loader.docs_data[1].topic_id = loader.docs_data[2].topic_id
    /\ Len(loader.docs_data[1].docs) # Len(loader.docs_data[2].docs)

\* C21 as stated: in the returned set two options whose texts are equal
\* after strip and lowercase are both selected or both not selected.
C21_DuplicatesTogether ==
    postproc.pc = "returned" =>
        \A i, j \in DOMAIN postproc.options :
            Lower(Strip(postproc.options[i])) = Lower(Strip(postproc.options[j]))
                => (Labels[i] \in postproc.processed
                        <=> Labels[j] \in postproc.processed)

\* C22 as stated: the returned set never holds an option that says none of
\* the others is correct together with any other option.
C22_NoneIsAlone ==
    postproc.pc = "returned" =>
        \A i \in DOMAIN postproc.options :
            (IsNoneOption(postproc.options[i]) /\ Labels[i] \in postproc.processed)
                => postproc.processed = {Labels[i]}

\* C23 as stated: the returned answer set is never empty.
C23_NeverEmpty ==
    postproc.pc = "returned" => postproc.processed # {}

\* C24 as stated (for a ground truth that is not empty): full_match exactly
\* when P = G, partial_match exactly when
\* P is a proper subset of G, empty_prediction exactly when P is empty,
\* wrong_only exactly when P and G are disjoint, over_complete exactly when
\* P is a proper superset of G, mixed_error exactly when P has correct and
\* wrong selections and misses a correct one.
C24_TypeAsStated ==
    (evaluator.pc = "classified" /\ evaluator.ground_truth # {}) =>
        LET P == evaluator.predicted
            G == evaluator.ground_truth
            type == evaluator.prediction_type
        IN  /\ type = "full_match" <=> P = G
            /\ type = "partial_match" <=> (P \subseteq G /\ P # G)
            /\ type = "empty_prediction" <=> P = {}
            /\ type = "wrong_only" <=> P \cap G = {}
            /\ type = "over_complete" <=> (G \subseteq P /\ P # G)
            /\ type = "mixed_error" <=>
                  (P \cap G # {} /\ P \ G # {} /\ G \ P # {})

\* C24 amended: the categories are tested in the docstring's order, each for
\* the predictions that no earlier one has taken: full_match exactly when
\* P = G and P is not empty, partial_match exactly when P is a non-empty
\* proper subset of G, empty_prediction exactly when P is empty, wrong_only
\* exactly when P is not empty and disjoint from G, over_complete exactly
\* when P is a proper superset of G and shares a label with it, mixed_error
\* exactly when P has correct and wrong selections and misses a correct one.
C24_TypeByPrecedence ==
    evaluator.pc = "classified" =>
        LET P == evaluator.predicted
            G == evaluator.ground_truth
            type == evaluator.prediction_type
        IN  /\ type = "full_match" <=> (P = G /\ P # {})
            /\ type = "partial_match" <=> (P # {} /\ P \subseteq G /\ P # G)
            /\ type = "empty_prediction" <=> P = {}
            /\ type = "wrong_only" <=> (P # {} /\ P \cap G = {})
            /\ type = "over_complete" <=>
                  (G \subseteq P /\ P # G /\ P \cap G # {})
            /\ type = "mixed_error" <=>
                  (P \cap G # {} /\ P \ G # {} /\ G \ P # {})

C24_Witness ==
    /\ evaluator.pc = "classified"
    /\ evaluator.predicted = {}
    /\ evaluator.ground_truth # {}
    /\ evaluator.prediction_type = "empty_prediction"

\* a call outcome whose content is non-empty after stripping
NonBlankOutcome(outcome) ==
    outcome.kind = "text" /\ \E i \in DOMAIN outcome.text :
                                 outcome.text[i] \notin Whitespace

\* C25: generate never raises and makes at most max_retries API calls; when
\* it returns after a call whose content is non-empty after stripping, that
\* call is the first such one and the last one made, and its content is
\* returned; otherwise all max_retries calls were made and the empty string
\* is returned; and every call of generate returns.
C25_GenerateTerminates ==
    /\ [](/\ llm.pc \in {"loop", "returned"}
          /\ Len(llm.log) <= llm.max_retries
          /\ llm.pc = "returned" =>
                IF \E i \in DOMAIN llm.log : NonBlankOutcome(llm.log[i])
                THEN /\ NonBlankOutcome(llm.log[Len(llm.log)])
                     /\ \A i \in 1 .. Len(llm.log) - 1 : ~NonBlankOutcome(llm.log[i])
                     /\ llm.returned = llm.log[Len(llm.log)].text
                ELSE /\ Len(llm.log) = llm.max_retries
                     /\ llm.returned = << >>)
    /\ <>(llm.pc = "returned")

C25_Witness ==
    /\ llm.pc = "returned"
    /\ Len(llm.log) = 3
    /\ llm.log[1].kind = "raised"
    /\ llm.log[2] = [kind |-> "text", text |-> <<" ", "\t">>]
    /\ llm.returned = <<" ", "a">>

\* the number of samples that chose opt
ChosenIn(samples, opt) == Cardinality({ i \in DOMAIN samples : opt \in samples[i] })

\* C26: the vote is taken over exactly 3 samples; when some option was chosen
\* in at least 2 of them the voted set is the set of the options chosen in
\* at least 2; otherwise it is the set of the options with the highest
\* count when that count is not zero, and empty when no sample chose
\* anything.
C26_OptionLevelVote ==
    voter.pc = "voted" =>
        LET n(opt) == ChosenIn(voter.samples, opt)
        IN  /\ Len(voter.samples) = 3
            /\ IF \E opt \in Options : n(opt) >= 2
               THEN voter.voted_answers = { opt \in Options : n(opt) >= 2 }
               ELSE voter.voted_answers =
                       { opt \in Options :
                           n(opt) > 0 /\ \A other \in Options : n(other) <= n(opt) }

C26_Witness ==
    /\ voter.pc = "voted"
    /\ \A opt \in Options : ChosenIn(voter.samples, opt) < 2
    /\ Cardinality(voter.voted_answers) = 2

\* C27 as stated: for the voting and two-pass approaches, the answer set
\* run.parse_answer extracts from the text returned by solve equals the
\* approach's final post-processed answer set, or {A} when that set is empty,
\* whatever the LLM responses were.
C27_ParsedIsFinal ==
    answer.pc = "parsed" =>
        answer.parsed = (IF answer.final_answers = {} THEN {"A"}
                         ELSE answer.final_answers)

====
